---------------------------- MODULE Spec2Model ----------------------------
(***************************************************************************)
(* A model of openleadr/server.py: the OpenADRServer class, its handler    *)
(* catalogue (_MAP), the constructor that installs the message signer and  *)
(* verifier on the VTNService class, run, and add_handler.                 *)
(*                                                                         *)
(* Python keeps three kinds of state here:                                 *)
(*   - class attributes of OpenADRServer (_MAP);                           *)
(*   - class attributes of the service classes, which add_handler writes   *)
(*     with setattr(self._MAP[name], name, ...), and of their common base  *)
(*     class VTNService, which __init__ writes (_create_message and        *)
(*     _parse_message);                                                    *)
(*   - the server objects themselves.                                      *)
(* Class attributes belong to the process, not to a server object.         *)
(*                                                                         *)
(* Request handling lives in openleadr/service.py and openleadr/           *)
(* messaging.py; handler, respond, Resolve and Decrypts model it from the  *)
(* design document (sections 4.2 and 4.3).                                 *)
(***************************************************************************)
EXTENDS Naturals, FiniteSets, Sequences, TLC

None == "None"

(* ---------------------------------------------------------------------- *)
(* Input sets and bounds                                                   *)
(* ---------------------------------------------------------------------- *)

\* Server objects the process may construct.
Servers == {"A", "B"}

\* Requests that may be in flight at the same time.
Requests == {"r1"}

\* Operator-supplied handler functions.
Handlers == {"h1", "h2"}

\* Names that are not keys of _MAP.
UnknownNames == {"on_unknown", "on_opt"}

\* Number of handler registrations (add_handler calls and attribute
\* assignments) explored.
MaxCalls == 2

\* Constructor arguments <<cert, key, passphrase, fingerprint_lookup>>:
\* unsigned with and without a resolver, signed, signed with a passphrase
\* that does not open the key, certificate without key, key without
\* certificate, and a certificate path at which no file exists.
Configs ==
    {<<None, None, None, None>>,
     <<None, None, None, "lookup">>,
     <<"cert.pem", "key.pem", "secret", "lookup">>,
     <<"cert.pem", "key.pem", "wrong", "lookup">>,
     <<"cert.pem", None, None, None>>,
     <<None, "key.pem", "secret", None>>,
     <<"absent.pem", "key.pem", "secret", "lookup">>}

\* The file system: the files that can be opened.
Files == {"cert.pem", "key.pem"}

\* The passphrase key.pem is encrypted with.
KeyPassphrase == "secret"

(* ---------------------------------------------------------------------- *)
(* The handler catalogue                                                   *)
(* ---------------------------------------------------------------------- *)

\* The names add_handler's docstring lists.
DocNames ==
    {"on_created_event", "on_request_event",
     "on_register_report", "on_create_report", "on_created_report",
     "on_request_report", "on_update_report",
     "on_poll",
     "on_query_registration", "on_create_party_registration",
     "on_cancel_party_registration"}

\* The classes imported from openleadr.service.
ServiceClasses ==
    {"EventService", "ReportService", "PollService", "OptService",
     "RegistrationService"}

\* The catalogue without an extension point for the poll service.
MapLiteral_NoPoll ==
    ("on_created_event" :> "EventService") @@
    ("on_request_event" :> "EventService") @@
    ("on_register_report" :> "ReportService") @@
    ("on_create_report" :> "ReportService") @@
    ("on_created_report" :> "ReportService") @@
    ("on_request_report" :> "ReportService") @@
    ("on_update_report" :> "ReportService") @@
    ("on_query_registration" :> "RegistrationService") @@
    ("on_create_party_registration" :> "RegistrationService") @@
    ("on_cancel_party_registration" :> "RegistrationService")

\* The literal of the class attribute OpenADRServer._MAP.
MapLiteral ==
    ("on_created_event" :> "EventService") @@
    ("on_request_event" :> "EventService") @@
    ("on_register_report" :> "ReportService") @@
    ("on_create_report" :> "ReportService") @@
    ("on_created_report" :> "ReportService") @@
    ("on_request_report" :> "ReportService") @@
    ("on_update_report" :> "ReportService") @@
    ("on_poll" :> "PollService") @@
    ("on_query_registration" :> "RegistrationService") @@
    ("on_create_party_registration" :> "RegistrationService") @@
    ("on_cancel_party_registration" :> "RegistrationService")

\* The extension points the incoming messages are for: two of one service
\* class and one of another.
MessageNames == {"on_created_event", "on_request_event", "on_poll"}

\* The names add_handler is called with: those, and the unknown name.
CallNames == MessageNames \cup UnknownNames

\* The names handlers are assigned to as attributes of a server object: an
\* extension point and a name outside the catalogue.
AssignNames == {"on_poll", "on_unknown"}

\* The function assigned that way.
AssignedHandlers == {"h1"}

\* The built-in implementation a service class carries for an extension
\* point before anything is bound.
Default == "default"

VARIABLES
    _MAP,             \* OpenADRServer._MAP: name -> service class
    classAttrs,       \* <<class, name>> -> the attribute `name` of `class`
    _create_message,  \* VTNService._create_message: the signer
    _parse_message,   \* VTNService._parse_message: the verifier
    status,           \* server object -> "absent", "constructed", "running"
    raised,           \* the exception the latest API call raised, if any
    calls,            \* number of handler registrations made
    latest,           \* server -> name -> what add_handler last bound there
    req,              \* request -> its position in request handling
    services,         \* server object -> self.services
    app,              \* server object -> the routes of self.app
    instAttrs,        \* server object -> the other attributes set on it
    stdout            \* what the latest API call printed

vars == <<_MAP, classAttrs, _create_message, _parse_message, status, raised,
          calls, latest, req, services, app, instAttrs, stdout>>

\* The latest API call returned normally.
NoException == [type |-> "None"]

\* The latest API call printed nothing.
NoOutput == [line |-> "None"]

\* No object, and the dict of an object without attributes.
EmptyDict == << >>

\* A request no handler is running for.
Idle == [pc |-> "idle"]

\* VTNService attribute before any server was constructed.
Unset == [unset |-> TRUE]

(* ---------------------------------------------------------------------- *)
(* Helpers                                                                 *)
(* ---------------------------------------------------------------------- *)

\* open(path, "rb").read(): the content of the file at path.
FileRead(path) == IF path = "cert.pem" THEN "CERTIFICATE" ELSE "PRIVATE KEY"

\* partial(create_message, cert=cert, key=key, passphrase=passphrase)
CreateMessagePartial(cert, key, passphrase) ==
    [cert |-> cert, key |-> key, passphrase |-> passphrase]

\* partial(parse_message, fingerprint_lookup=fingerprint_lookup)
ParseMessagePartial(fingerprint_lookup) ==
    [fingerprint_lookup |-> fingerprint_lookup]

\* Can the signer decrypt its key?  A signer without a key leaves the message
\* unsigned and cannot fail; otherwise the key must be the content of
\* key.pem and the passphrase the one it is encrypted with.
Decrypts(signer) ==
    \/ signer.key = None
    \/ /\ signer.key = FileRead("key.pem")
       /\ signer.passphrase = KeyPassphrase

\* The binding a dispatch on server s finds for name: the service object of
\* class _MAP[name] has no attribute of its own under that name, so the
\* lookup ends at the class attribute.
Resolve(s, name) == classAttrs[<<_MAP[name], name>>]

\* The signer and the verifier the service areas of server s use: every
\* service object reads self._create_message and self._parse_message, which
\* are attributes of the base class VTNService.
SignerOf(s) == _create_message
VerifierOf(s) == _parse_message

(* ---------------------------------------------------------------------- *)
(* Initial state: the module is imported, no server exists                 *)
(* ---------------------------------------------------------------------- *)

Init ==
    /\ _MAP = MapLiteral
    /\ classAttrs = [p \in {<<MapLiteral[n], n>> : n \in DOMAIN MapLiteral}
                        |-> Default]
    /\ _create_message = Unset
    /\ _parse_message = Unset
    /\ status = [s \in Servers |-> "absent"]
    /\ raised = NoException
    /\ calls = 0
    /\ latest = [s \in Servers |-> [n \in DOMAIN MapLiteral |-> None]]
    /\ req = [r \in Requests |-> Idle]
    /\ services = [s \in Servers |-> EmptyDict]
    /\ app = [s \in Servers |-> << >>]
    /\ instAttrs = [s \in Servers |-> EmptyDict]
    /\ stdout = NoOutput

(* ---------------------------------------------------------------------- *)
(* OpenADRServer.__init__                                                  *)
(* ---------------------------------------------------------------------- *)

\* The keys of self.services, in the order of the dict literal.
ServiceKeys ==
    <<"event_service", "report_service", "poll_service", "opt_service",
      "registration_service">>

\* A freshly constructed service object: its class, and no attribute of its
\* own under the names the server deals with.
NewService(class) == [class |-> class, attrs |-> EmptyDict]

\* self.services as __init__ builds it.
ServicesLiteral ==
    ("event_service" :> NewService("EventService")) @@
    ("report_service" :> NewService("ReportService")) @@
    ("poll_service" :> NewService("PollService")) @@
    ("opt_service" :> NewService("OptService")) @@
    ("registration_service" :> NewService("RegistrationService"))

\* __service_name__ of a service class.
ServiceName(class) ==
    CASE class = "EventService" -> "EiEvent"
      [] class = "ReportService" -> "EiReport"
      [] class = "PollService" -> "OadrPoll"
      [] class = "OptService" -> "EiOpt"
      [] class = "RegistrationService" -> "EiRegisterParty"

\* web.post(f"/OpenADR2/Simple/2.0b/{s.__service_name__}", s.handler)
Route(svcs, key) ==
    [method |-> "POST",
     path |-> <<"/OpenADR2/Simple/2.0b/", ServiceName(svcs[key].class)>>,
     handler |-> key]

\* The routes without the one of the opt service.
Routes_NoOpt(svcs) ==
    [i \in 1..4 |-> Route(svcs, ServiceKeys[IF i < 4 THEN i ELSE 5])]

\* The list of routes handed to self.app.add_routes: one per value of
\* self.services.
Routes(svcs) == [i \in 1..Len(ServiceKeys) |-> Route(svcs, ServiceKeys[i])]

\* certificate_fingerprint(cert)
CertificateFingerprint(cert) == <<"fingerprint", cert>>

\* What __init__ prints when it configures signing.
FingerprintBanner(cert) ==
    [line |-> "Your VTN Certificate Fingerprint is",
     fingerprint |-> CertificateFingerprint(cert)]

\* getattr(service, name) for an attribute the classes take from VTNService:
\* the object's own attribute if it has one, else the class attribute.
GetAttr(service, name, classValue) ==
    IF name \in DOMAIN service.attrs THEN service.attrs[name] ELSE classValue

\* The signer and the verifier one service area of server s resolves.
SignerOfArea(s, key) ==
    GetAttr(services[s][key], "_create_message", _create_message)
VerifierOfArea(s, key) ==
    GetAttr(services[s][key], "_parse_message", _parse_message)

\* The part of __init__ after the files were read: the server object s
\* comes to exist with its services, routes and the attribute __setattr__.
Construct(s, svcs) ==
    /\ services' = [services EXCEPT ![s] = svcs]
    /\ app' = [app EXCEPT ![s] = Routes(svcs)]
    /\ instAttrs' = [instAttrs EXCEPT ![s] = ("__setattr__" :> "add_handler")]
    /\ status' = [status EXCEPT ![s] = "constructed"]
    /\ raised' = NoException

\* __init__ that gives the event service a signer of its own.
__init___OwnSigner(s, cert, key, passphrase, fingerprint_lookup) ==
    /\ status[s] = "absent"
    /\ IF cert # None /\ key # None
       THEN IF cert \in Files /\ key \in Files
            THEN /\ _create_message' =
                        CreateMessagePartial(FileRead(cert), FileRead(key),
                                             passphrase)
                 /\ _parse_message' = ParseMessagePartial(fingerprint_lookup)
                 /\ stdout' = FingerprintBanner(FileRead(cert))
                 /\ Construct(s,
                       [ServicesLiteral EXCEPT !["event_service"].attrs =
                           ("_create_message" :>
                               CreateMessagePartial(FileRead(cert),
                                                    FileRead(key), passphrase))])
            ELSE /\ raised' = [type |-> "FileNotFoundError"]
                 /\ stdout' = NoOutput
                 /\ UNCHANGED <<_create_message, _parse_message, status,
                                services, app, instAttrs>>
       ELSE /\ _create_message' = CreateMessagePartial(cert, key, passphrase)
            /\ _parse_message' = ParseMessagePartial(fingerprint_lookup)
            /\ stdout' = NoOutput
            /\ Construct(s,
                  [ServicesLiteral EXCEPT !["event_service"].attrs =
                      ("_create_message" :>
                          CreateMessagePartial(cert, key, passphrase))])
    /\ UNCHANGED <<_MAP, classAttrs, calls, latest, req>>

\* __init__ that prints the fingerprint whenever a certificate is given.
__init___CertOnly(s, cert, key, passphrase, fingerprint_lookup) ==
    /\ status[s] = "absent"
    /\ IF cert # None /\ key # None
       THEN IF cert \in Files /\ key \in Files
            THEN /\ _create_message' =
                        CreateMessagePartial(FileRead(cert), FileRead(key),
                                             passphrase)
                 /\ _parse_message' = ParseMessagePartial(fingerprint_lookup)
                 /\ stdout' = FingerprintBanner(FileRead(cert))
                 /\ Construct(s, ServicesLiteral)
            ELSE /\ raised' = [type |-> "FileNotFoundError"]
                 /\ stdout' = NoOutput
                 /\ UNCHANGED <<_create_message, _parse_message, status,
                                services, app, instAttrs>>
       ELSE /\ _create_message' = CreateMessagePartial(cert, key, passphrase)
            /\ _parse_message' = ParseMessagePartial(fingerprint_lookup)
            /\ stdout' = IF cert # None THEN FingerprintBanner(cert)
                         ELSE NoOutput
            /\ Construct(s, ServicesLiteral)
    /\ UNCHANGED <<_MAP, classAttrs, calls, latest, req>>

\* s = OpenADRServer(vtn_id, cert, key, passphrase, fingerprint_lookup)
__init__(s, cert, key, passphrase, fingerprint_lookup) ==
    /\ status[s] = "absent"
    /\ IF cert # None /\ key # None
       THEN IF cert \in Files /\ key \in Files
            THEN \* both files are read, the fingerprint is printed
                 /\ _create_message' =
                        CreateMessagePartial(FileRead(cert), FileRead(key),
                                             passphrase)
                 /\ _parse_message' = ParseMessagePartial(fingerprint_lookup)
                 /\ stdout' = FingerprintBanner(FileRead(cert))
                 /\ Construct(s, ServicesLiteral)
            ELSE \* open() raises before anything is printed or installed;
                 \* the half-built object is dropped
                 /\ raised' = [type |-> "FileNotFoundError"]
                 /\ stdout' = NoOutput
                 /\ UNCHANGED <<_create_message, _parse_message, status,
                                services, app, instAttrs>>
       ELSE \* the paths are passed on as they are, nothing is printed
            /\ _create_message' = CreateMessagePartial(cert, key, passphrase)
            /\ _parse_message' = ParseMessagePartial(fingerprint_lookup)
            /\ stdout' = NoOutput
            /\ Construct(s, ServicesLiteral)
    /\ UNCHANGED <<_MAP, classAttrs, calls, latest, req>>

(* ---------------------------------------------------------------------- *)
(* OpenADRServer.run                                                       *)
(* ---------------------------------------------------------------------- *)

\* web.run_app(self.app): the server accepts requests from here on.
run(s) ==
    /\ status[s] = "constructed"
    /\ status' = [status EXCEPT ![s] = "running"]
    /\ raised' = NoException
    /\ stdout' = NoOutput
    /\ UNCHANGED <<_MAP, classAttrs, _create_message, _parse_message, calls,
                   latest, req, services, app, instAttrs>>

(* ---------------------------------------------------------------------- *)
(* OpenADRServer.add_handler                                               *)
(* ---------------------------------------------------------------------- *)

\* A NameError whose message names the identifier only.
UnknownHandler_Bare(name) ==
    [type |-> "NameError", name |-> name, names |-> {}]

\* The NameError of add_handler: it names the identifier and self._MAP.keys().
UnknownHandler(name) ==
    [type |-> "NameError", name |-> name, names |-> DOMAIN _MAP]

\* print("Called add_handler", name, func)
CalledAddHandler(name, func) ==
    [line |-> "Called add_handler", name |-> name, func |-> func]

\* What every add_handler call does before it looks at the name, and what
\* no add_handler call touches.
AddHandlerFrame(s, name, func) ==
    /\ status[s] # "absent"
    /\ calls < MaxCalls
    /\ calls' = calls + 1
    /\ stdout' = CalledAddHandler(name, func)
    /\ UNCHANGED <<_create_message, _parse_message, status, services, app,
                   instAttrs>>

\* add_handler that also swaps the new function into the dispatches that
\* already invoked the old binding of that name.
add_handler_Rebinding(s, name, func) ==
    /\ AddHandlerFrame(s, name, func)
    /\ IF name \in DOMAIN _MAP
       THEN /\ classAttrs' = [classAttrs EXCEPT ![<<_MAP[name], name>>] = func]
            /\ latest' = [latest EXCEPT ![s][name] = func]
            /\ req' = [r \in Requests |->
                         IF req[r].pc = "invoked" /\ req[r].name = name
                         THEN [req[r] EXCEPT !.func = func]
                         ELSE req[r]]
            /\ raised' = NoException
       ELSE /\ raised' = UnknownHandler(name)
            /\ UNCHANGED <<classAttrs, latest, req>>
    /\ UNCHANGED _MAP

\* add_handler that enters an unknown name into the catalogue instead of
\* refusing it.
add_handler_Registering(s, name, func) ==
    /\ AddHandlerFrame(s, name, func)
    /\ IF name \in DOMAIN _MAP
       THEN /\ classAttrs' = [classAttrs EXCEPT ![<<_MAP[name], name>>] = func]
            /\ latest' = [latest EXCEPT ![s][name] = func]
            /\ UNCHANGED _MAP
       ELSE /\ _MAP' = _MAP @@ (name :> "VTNService")
            /\ classAttrs' = classAttrs @@ (<<"VTNService", name>> :> func)
            /\ UNCHANGED latest
    /\ raised' = NoException
    /\ UNCHANGED req

\* add_handler without its else branch: an unknown name is ignored.
add_handler_Silent(s, name, func) ==
    /\ AddHandlerFrame(s, name, func)
    /\ IF name \in DOMAIN _MAP
       THEN /\ classAttrs' = [classAttrs EXCEPT ![<<_MAP[name], name>>] = func]
            /\ latest' = [latest EXCEPT ![s][name] = func]
       ELSE UNCHANGED <<classAttrs, latest>>
    /\ raised' = NoException
    /\ UNCHANGED <<_MAP, req>>

\* add_handler that binds the function to every extension point of the
\* owning service class.
add_handler_ClassWide(s, name, func) ==
    /\ AddHandlerFrame(s, name, func)
    /\ IF name \in DOMAIN _MAP
       THEN /\ classAttrs' = [p \in DOMAIN classAttrs |->
                                 IF p[1] = _MAP[name] THEN func
                                 ELSE classAttrs[p]]
            /\ latest' = [latest EXCEPT ![s][name] = func]
            /\ raised' = NoException
       ELSE /\ raised' = UnknownHandler(name)
            /\ UNCHANGED <<classAttrs, latest>>
    /\ UNCHANGED <<_MAP, req>>

add_handler(s, name, func) ==
    /\ AddHandlerFrame(s, name, func)
    /\ IF name \in DOMAIN _MAP
       THEN /\ classAttrs' = [classAttrs EXCEPT ![<<_MAP[name], name>>] = func]
            /\ latest' = [latest EXCEPT ![s][name] = func]
            /\ raised' = NoException
       ELSE /\ raised' = UnknownHandler(name)
            /\ UNCHANGED <<classAttrs, latest>>
    /\ UNCHANGED <<_MAP, req>>

(* ---------------------------------------------------------------------- *)
(* Attribute assignment on a server object                                 *)
(* ---------------------------------------------------------------------- *)

\* server.<name> = func.  Python finds __setattr__ on the type of the
\* object, never in the object's own dict, so the entry "__setattr__" that
\* __init__ stored there is not consulted: object.__setattr__ runs and
\* stores the value in the object's dict.
setattr(s, name, func) ==
    /\ status[s] # "absent"
    /\ calls < MaxCalls
    /\ calls' = calls + 1
    /\ instAttrs' = [instAttrs EXCEPT ![s] = (name :> func) @@ @]
    /\ raised' = NoException
    /\ stdout' = NoOutput
    /\ UNCHANGED <<_MAP, classAttrs, _create_message, _parse_message, status,
                   latest, req, services, app>>

(* ---------------------------------------------------------------------- *)
(* Request handling (openleadr/service.py, from the design document)       *)
(* ---------------------------------------------------------------------- *)

\* A message for extension point `name` arrives at server s: it is decoded,
\* the binding is resolved and invoked; the handler then runs (and may
\* suspend) until respond.
handler(r, s, name) ==
    /\ status[s] = "running"
    /\ req[r].pc # "invoked"
    /\ req' = [req EXCEPT ![r] = [pc |-> "invoked", server |-> s,
                                  name |-> name, func |-> Resolve(s, name)]]
    /\ UNCHANGED <<_MAP, classAttrs, _create_message, _parse_message, status,
                   raised, calls, latest, services, app, instAttrs, stdout>>

\* The handler returned: its result is encoded with the signer.
respond(r) ==
    /\ req[r].pc = "invoked"
    /\ req' = [req EXCEPT ![r] =
                  [pc |-> "done",
                   result |-> IF Decrypts(SignerOf(req[r].server))
                              THEN "response" ELSE "SigningError"]]
    /\ UNCHANGED <<_MAP, classAttrs, _create_message, _parse_message, status,
                   raised, calls, latest, services, app, instAttrs, stdout>>

(* ---------------------------------------------------------------------- *)
(* Specification                                                           *)
(* ---------------------------------------------------------------------- *)

Next ==
    \/ \E s \in Servers, c \in Configs : __init__(s, c[1], c[2], c[3], c[4])
    \/ \E s \in Servers : run(s)
    \/ \E s \in Servers, name \in CallNames,
          func \in Handlers : add_handler(s, name, func)
    \/ \E s \in Servers, name \in AssignNames,
          func \in AssignedHandlers : setattr(s, name, func)
    \/ \E r \in Requests, s \in Servers, name \in MessageNames :
          handler(r, s, name)
    \/ \E r \in Requests : respond(r)

Spec == Init /\ [][Next]_vars

(* ---------------------------------------------------------------------- *)
(* Properties                                                              *)
(* ---------------------------------------------------------------------- *)

\* The state add_handler must not touch when it fails.
Bindings == <<_MAP, classAttrs, _create_message, _parse_message, status,
              latest, req, services, app, instAttrs>>

\* C1: after add_handler(name, h) returned on a server, a dispatch of a
\* matching message that starts on that server invokes exactly h: the call
\* makes h the binding the server resolves, and every dispatch that starts
\* on a server that bound the name invokes what that server bound last.
C1_BindThenDispatch ==
    [][\A s \in Servers, n \in MessageNames :
          /\ \A h \in Handlers : add_handler(s, n, h) => Resolve(s, n)' = h
          /\ \A r \in Requests :
                (handler(r, s, n) /\ latest[s][n] # None)
                    => req'[r].func = latest[s][n]]_vars

\* C2: add_handler with a name outside the catalogue always raises the
\* NameError and changes neither a binding, nor the catalogue, nor the
\* signer and verifier, nor anything else.
C2_UnknownNameFails ==
    [][\A s \in Servers, n \in UnknownNames, h \in Handlers :
          add_handler(s, n, h)
              => /\ raised'.type = "NameError"
                 /\ UNCHANGED Bindings]_vars

\* C2 witness: an unknown name was refused after a handler had been bound
\* and a server had started.
C2_Witness ==
    /\ raised.type = "NameError"
    /\ \E n \in MessageNames : classAttrs[<<_MAP[n], n>>] # Default
    /\ \E s \in Servers : status[s] = "running"

\* C3: with two servers constructed, add_handler on one leaves the binding
\* the other resolves for that name as it was.
C3_NoLeak ==
    [][\A a \in Servers, b \in Servers, n \in MessageNames, h \in Handlers :
          (a # b /\ status[b] # "absent" /\ add_handler(a, n, h))
              => Resolve(b, n)' = Resolve(b, n)]_vars

\* C4: the signer and the verifier the service areas of a server use are
\* fixed when the server is constructed: no step taken while the server
\* exists changes them.
C4_ContextFixed ==
    [][\A s \in Servers :
          status[s] # "absent"
              => /\ SignerOf(s)' = SignerOf(s)
                 /\ VerifierOf(s)' = VerifierOf(s)]_vars

\* C5: constructing a server with exactly one of cert and key fails: an
\* exception is raised, no server comes to exist and no signer is installed.
C5_PartialCredentialsFatal ==
    [][\A s \in Servers, c \in Configs :
          (((c[1] = None) # (c[2] = None))
              /\ __init__(s, c[1], c[2], c[3], c[4]))
              => /\ raised'.type # "None"
                 /\ status'[s] = "absent"
                 /\ _create_message' = _create_message]_vars

\* C6: the binding of an extension point changes at most once: once it is
\* not the default any more, no step changes it.
C6_BoundAtMostOnce ==
    [][\A n \in DOMAIN _MAP :
          classAttrs[<<_MAP[n], n>>] # Default
              => classAttrs'[<<_MAP[n], n>>] = classAttrs[<<_MAP[n], n>>]]_vars

\* C7: the error add_handler raises for an unknown name carries that name
\* and the complete catalogue, all eleven names.
C7_ErrorListsCatalogue ==
    [][\A s \in Servers, n \in UnknownNames, h \in Handlers :
          add_handler(s, n, h)
              => /\ raised'.type = "NameError"
                 /\ raised'.name = n
                 /\ raised'.names = DocNames
                 /\ Cardinality(raised'.names) = 11]_vars

\* C7 witness: the error for on_opt, listing eleven names.
C7_Witness ==
    /\ raised.type = "NameError"
    /\ raised.name = "on_opt"
    /\ Cardinality(raised.names) = 11

\* C8: a bind that interleaves with request handling leaves every dispatch
\* that already invoked a handler as it is; the call makes its function the
\* binding every server resolves for the name, a dispatch that starts
\* invokes the binding resolved at that moment, and a binding only ever
\* changes to the function an add_handler call for that name passes.
C8_BindDuringServing ==
    [][/\ \A r \in Requests :
             (req[r].pc = "invoked" /\ calls' # calls) => req'[r] = req[r]
       /\ \A s \in Servers, n \in MessageNames, h \in Handlers :
             add_handler(s, n, h)
                 => \A t \in Servers : Resolve(t, n)' = h
       /\ \A r \in Requests, s \in Servers, n \in MessageNames :
             handler(r, s, n) => req'[r].func = Resolve(s, n)
       /\ \A t \in Servers, n \in MessageNames :
             Resolve(t, n)' # Resolve(t, n)
                 => \E s \in Servers, h \in Handlers :
                       add_handler(s, n, h) /\ Resolve(t, n)' = h]_vars

\* C8 witness: a dispatch is running the old handler of a name whose binding
\* add_handler replaced in the meantime.
C8_Witness ==
    \E r \in Requests :
        /\ req[r].pc = "invoked"
        /\ req[r].func # Resolve(req[r].server, req[r].name)
        /\ calls > 0

\* C9: constructing a server whose passphrase does not open the private key
\* fails: an exception is raised and no server comes to exist.
C9_WrongPassphraseFatal ==
    [][\A s \in Servers, c \in Configs :
          (c[1] \in Files /\ c[2] \in Files /\ c[3] # KeyPassphrase
              /\ __init__(s, c[1], c[2], c[3], c[4]))
              => /\ raised'.type # "None"
                 /\ status'[s] = "absent"]_vars

\* C10: the catalogue is fixed: in every state its names are the eleven
\* names of add_handler's documentation, each owned by one of the Event,
\* Report, Poll and Registration service classes; add_handler accepts
\* exactly those names, and no step changes the catalogue.
C10_CatalogueFixed ==
    /\ [](/\ DOMAIN _MAP = DocNames
          /\ Cardinality(DOMAIN _MAP) = 11
          /\ \A n \in DOMAIN _MAP :
                _MAP[n] \in {"EventService", "ReportService", "PollService",
                             "RegistrationService"})
    /\ [][/\ _MAP' = _MAP
          /\ \A s \in Servers, n \in CallNames, h \in Handlers :
                add_handler(s, n, h)
                    => (raised'.type = "None" <=> n \in DocNames)]_vars

\* C10 witness: servers were constructed and started, handlers were bound, a
\* request was answered and an unknown name was refused.
C10_Witness ==
    /\ \A s \in Servers : status[s] = "running"
    /\ raised.type = "NameError"
    /\ \E n \in MessageNames : classAttrs[<<_MAP[n], n>>] # Default
    /\ \E r \in Requests : req[r].pc = "done"

\* The service class behind the i-th route of server s.
RoutedClass(s, i) == services[s][app[s][i].handler].class

\* C11 as stated: every service area a server exposes at an endpoint owns at
\* least one extension point of the catalogue.
C11_EveryRoutedAreaOwns ==
    \A s \in Servers :
        status[s] # "absent"
            => \A i \in DOMAIN app[s] :
                  \E n \in DOMAIN _MAP : _MAP[n] = RoutedClass(s, i)

\* C11, amended: every service area a server exposes at an endpoint, except
\* the opt service, owns at least one extension point of the catalogue; the
\* opt service is exposed and owns none.
C11_EveryRoutedAreaButOptOwns ==
    \A s \in Servers :
        status[s] # "absent"
            => /\ \A i \in DOMAIN app[s] :
                     RoutedClass(s, i) # "OptService"
                         => \E n \in DOMAIN _MAP : _MAP[n] = RoutedClass(s, i)
               /\ \E i \in DOMAIN app[s] : RoutedClass(s, i) = "OptService"
               /\ \A n \in DOMAIN _MAP : _MAP[n] # "OptService"

\* C11 witness: a running server that exposes the poll service and the opt
\* service.
C11_Witness ==
    \E s \in Servers :
        /\ status[s] = "running"
        /\ \E i \in DOMAIN app[s] : RoutedClass(s, i) = "PollService"
        /\ \E i \in DOMAIN app[s] : RoutedClass(s, i) = "OptService"

\* C12: a construction that completes prints the fingerprint of the
\* certificate exactly when both a certificate and a key were supplied; with
\* neither supplied the construction completes, prints nothing and installs
\* a signer without certificate and key.
C12_FingerprintIffSigning ==
    [][\A s \in Servers, c \in Configs :
          __init__(s, c[1], c[2], c[3], c[4])
              => /\ status'[s] = "constructed"
                    => /\ (stdout' # NoOutput) <=> (c[1] # None /\ c[2] # None)
                       /\ stdout' # NoOutput
                             => stdout' = FingerprintBanner(FileRead(c[1]))
                 /\ (c[1] = None /\ c[2] = None)
                    => /\ status'[s] = "constructed"
                       /\ stdout' = NoOutput
                       /\ _create_message'.cert = None
                       /\ _create_message'.key = None]_vars

\* C12 witness: a construction has just printed the fingerprint.
C12_Witness ==
    /\ stdout = FingerprintBanner("CERTIFICATE")
    /\ \E s \in Servers : status[s] = "constructed"
    /\ _create_message.key = "PRIVATE KEY"

\* C13: assigning a handler to an attribute of a server behaves like
\* add_handler: for a catalogue name later dispatches invoke the function,
\* for another name the NameError is raised.
C13_AssignmentIsAddHandler ==
    [][\A s \in Servers, n \in AssignNames, h \in AssignedHandlers :
          setattr(s, n, h)
              => IF n \in DOMAIN _MAP
                 THEN Resolve(s, n)' = h
                 ELSE raised'.type = "NameError"]_vars

\* C14: all service areas of a server resolve one and the same signer and
\* one and the same verifier, the ones a constructor installed on
\* VTNService, and no service area holds a signer or verifier of its own.
C14_SharedContext ==
    \A s \in Servers :
        status[s] # "absent"
            => /\ _create_message # Unset
               /\ _parse_message # Unset
               /\ \A k1 \in DOMAIN services[s], k2 \in DOMAIN services[s] :
                     /\ SignerOfArea(s, k1) = SignerOfArea(s, k2)
                     /\ VerifierOfArea(s, k1) = VerifierOfArea(s, k2)
               /\ \A k \in DOMAIN services[s] :
                     /\ "_create_message" \notin DOMAIN services[s][k].attrs
                     /\ "_parse_message" \notin DOMAIN services[s][k].attrs
                     /\ SignerOfArea(s, k) = _create_message
                     /\ VerifierOfArea(s, k) = _parse_message

\* C14 witness: two servers exist, one of them running, and the signer
\* holds a certificate and a key.
C14_Witness ==
    /\ \A s \in Servers : status[s] # "absent"
    /\ \E s \in Servers : status[s] = "running"
    /\ _create_message.cert = "CERTIFICATE"
    /\ _create_message.key = "PRIVATE KEY"

\* C15: a constructed server has five services and exactly one route per
\* service: a POST route at /OpenADR2/Simple/2.0b/<name of the service>
\* handled by that service; no step changes the routes of a server that
\* exists.
C15_OneRoutePerService ==
    /\ [](\A s \in Servers :
             status[s] # "absent"
                 => /\ DOMAIN services[s] =
                          {"event_service", "report_service", "poll_service",
                           "opt_service", "registration_service"}
                    /\ Len(app[s]) = 5
                    /\ \A k \in DOMAIN services[s] :
                          Cardinality({i \in DOMAIN app[s] :
                                          app[s][i].handler = k}) = 1
                    /\ \A i \in DOMAIN app[s] :
                          /\ app[s][i].method = "POST"
                          /\ app[s][i].handler \in DOMAIN services[s]
                          /\ app[s][i].path =
                                <<"/OpenADR2/Simple/2.0b/",
                                  ServiceName(RoutedClass(s, i))>>)
    /\ [][\A s \in Servers :
             status[s] # "absent" => app'[s] = app[s]]_vars

\* C15 witness: a running server with its five routes, after a handler was
\* bound and an attribute assigned.
C15_Witness ==
    \E s \in Servers :
        /\ status[s] = "running"
        /\ Len(app[s]) = 5
        /\ "on_poll" \in DOMAIN instAttrs[s]
        /\ \E n \in MessageNames : classAttrs[<<_MAP[n], n>>] # Default

\* C16: a successful add_handler(name, func) makes func the binding of the
\* extension point name on its owning class and changes no other binding,
\* nor the catalogue, the services and routes, the signer or the verifier.
C16_OnlyThatBinding ==
    [][\A s \in Servers, n \in MessageNames, h \in Handlers :
          add_handler(s, n, h)
              => /\ classAttrs'[<<_MAP[n], n>>] = h
                 /\ \A p \in DOMAIN classAttrs :
                       p # <<_MAP[n], n>> => classAttrs'[p] = classAttrs[p]
                 /\ DOMAIN classAttrs' = DOMAIN classAttrs
                 /\ UNCHANGED <<_MAP, services, app, _create_message,
                                _parse_message>>]_vars

\* C16 witness: one extension point of the event service is bound while the
\* other one of the same class still has its default.
C16_Witness ==
    /\ classAttrs[<<"EventService", "on_created_event">>] \in Handlers
    /\ classAttrs[<<"EventService", "on_request_event">>] = Default
    /\ stdout.line = "Called add_handler"

=============================================================================
